---------------------------- MODULE Spec2Model ----------------------------
(***************************************************************************)
(* atom_str: a process-wide string interner (src/src/lib.rs).              *)
(*                                                                         *)
(* Strings are sequences of bytes (0..255).  A Record (AtomInner) lives in *)
(* `heap`; an Atom is the address of its Record (an index into heap).      *)
(* INTERN_SET maps an AtomKey to the Vec<Atom> of Atoms with that key and  *)
(* is guarded by one mutex (lock_owner, poisoned).                         *)
(***************************************************************************)
EXTENDS Integers, Sequences, FiniteSets, TLC

(***************************************************************************)
(* Bounds of the model.                                                    *)
(***************************************************************************)
NumThreads == 2          \* threads calling Atom::new
MaxCalls == 3            \* Atom::new calls started in one behaviour
UsizeBits == 9           \* width of usize in the model (64 in the build)
HashBits == 4            \* width of the digest in the model (64 in the build)
MaxBufLen == 3           \* longest buffer handed to the hash functions directly

Threads == 1..NumThreads
NoThread == 0
UsizeRange == 2 ^ UsizeBits
USIZE_MAX == UsizeRange - 1
HashRange == 2 ^ HashBits

(***************************************************************************)
(* Program constants.                                                      *)
(***************************************************************************)
\* const HASH_SEED: u64 = 0x9e3779b9; kept as its low 16 bits 0x79b9, which
\* is all a digest of at most 16 bits can depend on.
HASH_SEED == 31161
ENDS_SIZE == 64

(***************************************************************************)
(* Results of operations that may panic.                                   *)
(***************************************************************************)
Ok(v) == [ok |-> TRUE, v |-> v]
Panicked == [ok |-> FALSE]

(***************************************************************************)
(* XxHash64 (twox_hash).  The digest is a left fold over the bytes fed to  *)
(* the hasher, so that one write of head ++ tail and two writes of head    *)
(* then tail give the same digest, as the streaming hasher does.  The fold *)
(* is not injective: different inputs can collide.                         *)
(***************************************************************************)
\* one byte absorbed into the hasher state
XxRound(state, byte) == (state * 33 + byte) % HashRange

\* Hasher::write: the bytes absorbed in order, left to right.  The range
\* lo..hi is absorbed as its left half followed by its right half.
XxWrite(state, bytes) ==
    LET absorb[a \in (0..(HashRange - 1)) \X (1..(Len(bytes) + 1)) \X (0..Len(bytes))] ==
            LET s == a[1]
                lo == a[2]
                hi == a[3]
                mid == (lo + hi) \div 2
            IN IF lo > hi THEN s
               ELSE IF lo = hi THEN XxRound(s, bytes[lo])
               ELSE absorb[<<absorb[<<s, lo, mid>>], mid + 1, hi>>]
    IN absorb[<<state, 1, Len(bytes)>>]

XxWithSeed(seed) == seed % HashRange

XxOneshot(seed, bytes) == XxWrite(XxWithSeed(seed), bytes)

hash_bytes(bytes) == XxOneshot(HASH_SEED, bytes)

\* checked: TRUE for a build with overflow checks (debug), where an
\* overflowing usize + or - panics; FALSE for a build where it wraps.
hash_bytes_head_tail(bytes, head_size, tail_size, checked) ==
    IF checked /\ head_size + tail_size > USIZE_MAX THEN Panicked
    ELSE
      LET ends_total == (head_size + tail_size) % UsizeRange IN
      IF Len(bytes) <= ends_total THEN Ok(hash_bytes(bytes))
      ELSE IF head_size > Len(bytes) THEN Panicked
      ELSE IF checked /\ tail_size > Len(bytes) THEN Panicked
      ELSE
        LET start == (Len(bytes) - tail_size) % UsizeRange IN
        IF start > Len(bytes) THEN Panicked
        ELSE
          LET head == SubSeq(bytes, 1, head_size)
              tail == SubSeq(bytes, start + 1, Len(bytes))
          IN Ok(XxWrite(XxWrite(XxWithSeed(HASH_SEED), head), tail))

hash_bytes_ends(bytes, end_size, checked) ==
    hash_bytes_head_tail(bytes, end_size, end_size, checked)

\* a str is handed over as its UTF-8 bytes
hash_str_ends(source, end_size, checked) ==
    hash_bytes_ends(source, end_size, checked)


(***************************************************************************)
(* The strings offered to Atom::new: the empty string, two strings shorter *)
(* than the hash window (one with a two-byte character, one the string of  *)
(* tests::substring_test), and two strings longer than the 2 * ENDS_SIZE   *)
(* window that differ only outside both windows and so share an AtomKey.   *)
(* The plain strings Atoms are compared with are these and "ab", "ba".     *)
(***************************************************************************)
StrEmpty == <<>>
StrAB == <<97, 98>>
StrBA == <<98, 97>>
StrEAcute == <<195, 169>>
StrDigits == <<48, 49, 50, 51, 52, 53, 54, 55, 56, 57>>
LongLen == 2 * ENDS_SIZE + 2
StrLongA == [i \in 1..LongLen |-> 97]
StrLongB == [i \in 1..LongLen |-> IF i = ENDS_SIZE + 1 THEN 98 ELSE 97]

Strings == {StrEmpty, StrEAcute, StrDigits, StrLongA, StrLongB}

PlainStrings == Strings \cup {StrAB, StrBA}

VARIABLES
    INTERN_SET,       \* HashMap<AtomKey, Vec<Atom>>: key -> sequence of Atoms
    lock_owner,       \* thread holding the INTERN_SET mutex, or NoThread
    poisoned,         \* poison flag of the INTERN_SET mutex
    heap,             \* the Records allocated so far; an Atom is an index
    pc,               \* per thread: its position in Atom::new
    string,           \* per thread: the argument of the call in progress
    key,              \* per thread: the local `key` of the call in progress
    scan_idx,         \* per thread: position of the iterator over the bucket
    returned,         \* every (argument, returned Atom) pair so far
    snap,             \* INTERN_SET as it was when the guard now alive was made
    calls,            \* number of Atom::new calls started
    overflow_checks,  \* the build: overflow checks on (debug) or off (release)
    in_bytes,         \* argument of a direct call of a hash function
    in_head_size,     \* argument head_size (end_size for hash_bytes_ends)
    in_tail_size,     \* argument tail_size
    hash_called,      \* which hash function was called: "none" before
    hash_out          \* what that call produced

regvars == <<INTERN_SET, lock_owner, poisoned, heap, pc, string, key,
             scan_idx, returned, snap, calls>>
hashvars == <<in_bytes, in_head_size, in_tail_size, hash_called, hash_out>>
vars == <<INTERN_SET, lock_owner, poisoned, heap, pc, string, key,
          scan_idx, returned, snap, calls, overflow_checks,
          in_bytes, in_head_size, in_tail_size, hash_called, hash_out>>

(***************************************************************************)
(* Keys, Records and Atoms.                                                *)
(***************************************************************************)
\* AtomKey::from_str
AtomKey_from_str(source) ==
    [hash |-> hash_str_ends(source, ENDS_SIZE, overflow_checks).v,
     len |-> Len(source)]

\* AtomInner::alloc: a block with room for the header and `n` payload bytes.
alloc(n) == [key |-> [hash |-> 0, len |-> 0], value |-> [i \in 1..n |-> 0]]

\* alloc_new with the copy one byte short
alloc_new_short_copy(s, k) ==
    LET block == alloc(Len(s)) IN
    [key |-> k,
     value |-> [i \in 1..Len(block.value) |-> IF i <= Len(s) - 1 THEN s[i] ELSE block.value[i]]]

\* AtomInner::alloc_new: write the header, then copy string.len() bytes.
alloc_new(s, k) ==
    LET block == alloc(Len(s)) IN
    [key |-> k,
     value |-> [i \in 1..Len(block.value) |-> IF i <= Len(s) THEN s[i] ELSE block.value[i]]]

Atoms == 1..Len(heap)

\* Atom::hash and Atom::len read the header.
Atom_hash(atom) == heap[atom].key.hash
Atom_len(atom) == heap[atom].key.len

\* Atom::as_str: key.len bytes of the payload.
as_str(atom) == SubSeq(heap[atom].value, 1, heap[atom].key.len)

ptr_eq(lhs, rhs) == lhs = rhs

Atom_eq(a, b) == ptr_eq(a, b)

\* the bucket scan comparing the keys instead of the contents
ScanMatches_by_key(atom, s) == heap[atom].key = AtomKey_from_str(s)

\* the comparison inside the bucket scan of Atom::new
ScanMatches(atom, s) == as_str(atom) = s

\* #[derive(Hash)] on AtomKey feeds the hasher each field of the key in
\* declaration order.
AtomKey_hash(k) == <<k.hash, k.len>>

\* Hash for Atom hashing the pointer, as a derived Hash would
Atom_Hash_hash_ptr(atom) == <<atom>>

\* impl Hash for Atom: self.inner.as_ref().key.hash(state)
Atom_Hash_hash(atom) == AtomKey_hash(heap[atom].key)

(***************************************************************************)
(* Initial states.                                                         *)
(***************************************************************************)
EmptyMap == [k \in {} |-> <<>>]
NoKey == [hash |-> 0, len |-> 0]

InitRegistry ==
    /\ INTERN_SET = EmptyMap
    /\ lock_owner = NoThread
    /\ poisoned = FALSE
    /\ heap = <<>>
    /\ pc = [t \in Threads |-> "idle"]
    /\ string = [t \in Threads |-> <<>>]
    /\ key = [t \in Threads |-> NoKey]
    /\ scan_idx = [t \in Threads |-> 0]
    /\ returned = {}
    /\ snap = EmptyMap
    /\ calls = 0

InitNoHashCall ==
    /\ in_bytes = <<>>
    /\ in_head_size = 0
    /\ in_tail_size = 0
    /\ hash_called = "none"
    /\ hash_out = Panicked

\* AtomKey::from_str adds ENDS_SIZE + ENDS_SIZE, which overflows in neither
\* build, so the registry is explored for one of them.
Init ==
    /\ InitRegistry
    /\ InitNoHashCall
    /\ overflow_checks = FALSE

(***************************************************************************)
(* Atom::new, one action per step of the call.                             *)
(***************************************************************************)
\* let key = AtomKey::from_str(string);  -- before the lock is taken
Call(t, s) ==
    /\ pc[t] = "idle"
    /\ calls < MaxCalls
    /\ calls' = calls + 1
    /\ string' = [string EXCEPT ![t] = s]
    /\ key' = [key EXCEPT ![t] = AtomKey_from_str(s)]
    /\ pc' = [pc EXCEPT ![t] = "lock"]
    /\ UNCHANGED <<INTERN_SET, lock_owner, poisoned, heap, scan_idx,
                   returned, snap, overflow_checks>>
    /\ UNCHANGED hashvars

\* Atom::new entering the critical section without waiting for the mutex
Lock_no_exclusion(t) ==
    /\ pc[t] = "lock"
    /\ ~poisoned
    /\ lock_owner' = t
    /\ snap' = INTERN_SET
    /\ pc' = [pc EXCEPT ![t] = "entry"]
    /\ UNCHANGED <<INTERN_SET, poisoned, heap, string, key, scan_idx, returned, calls, overflow_checks>>
    /\ UNCHANGED hashvars

\* let mut set_lock = INTERN_SET.lock().unwrap();  -- the mutex is free and
\* not poisoned
Lock(t) ==
    /\ pc[t] = "lock"
    /\ lock_owner = NoThread
    /\ ~poisoned
    /\ lock_owner' = t
    /\ snap' = INTERN_SET
    /\ pc' = [pc EXCEPT ![t] = "entry"]
    /\ UNCHANGED <<INTERN_SET, poisoned, heap, string, key, scan_idx, returned, calls, overflow_checks>>
    /\ UNCHANGED hashvars

\* HashMap::insert(key, Vec::new()): an existing bucket is replaced
insert_empty(map, k) ==
    [x \in DOMAIN map \cup {k} |-> IF x = k THEN <<>> ELSE map[x]]

\* HashMap::entry(key).or_insert_with(Vec::new)
or_insert_empty(map, k) ==
    IF k \in DOMAIN map THEN map
    ELSE [x \in DOMAIN map \cup {k} |-> IF x = k THEN <<>> ELSE map[x]]

\* let atoms = set_lock.entry(key).or_insert_with(|| Vec::new());
Entry(t) ==
    /\ pc[t] = "entry"
    /\ INTERN_SET' = or_insert_empty(INTERN_SET, key[t])
    /\ scan_idx' = [scan_idx EXCEPT ![t] = 1]
    /\ pc' = [pc EXCEPT ![t] = "scan"]
    /\ UNCHANGED <<lock_owner, poisoned, heap, string, key, returned,
                   snap, calls, overflow_checks>>
    /\ UNCHANGED hashvars

\* for atom in atoms.iter().cloned(): the Atom under the iterator differs
\* from `string`, the loop goes on
ScanNext(t) ==
    /\ pc[t] = "scan"
    /\ scan_idx[t] <= Len(INTERN_SET[key[t]])
    /\ ~ScanMatches(INTERN_SET[key[t]][scan_idx[t]], string[t])
    /\ scan_idx' = [scan_idx EXCEPT ![t] = scan_idx[t] + 1]
    /\ UNCHANGED <<INTERN_SET, lock_owner, poisoned, heap, pc, string, key,
                   returned, snap, calls, overflow_checks>>
    /\ UNCHANGED hashvars

\* the early return with the guard leaked: the mutex stays locked
ScanHit_guard_leaked(t) ==
    /\ pc[t] = "scan"
    /\ scan_idx[t] <= Len(INTERN_SET[key[t]])
    /\ ScanMatches(INTERN_SET[key[t]][scan_idx[t]], string[t])
    /\ returned' = returned \cup
           {[s |-> string[t], atom |-> INTERN_SET[key[t]][scan_idx[t]]]}
    /\ pc' = [pc EXCEPT ![t] = "idle"]
    /\ string' = [string EXCEPT ![t] = <<>>]
    /\ key' = [key EXCEPT ![t] = NoKey]
    /\ scan_idx' = [scan_idx EXCEPT ![t] = 0]
    /\ snap' = EmptyMap
    /\ UNCHANGED <<INTERN_SET, lock_owner, poisoned, heap, calls,
                   overflow_checks>>
    /\ UNCHANGED hashvars

\* if atom_str == string { return atom; }  -- the guard is dropped
ScanHit(t) ==
    /\ pc[t] = "scan"
    /\ scan_idx[t] <= Len(INTERN_SET[key[t]])
    /\ ScanMatches(INTERN_SET[key[t]][scan_idx[t]], string[t])
    /\ returned' = returned \cup
           {[s |-> string[t], atom |-> INTERN_SET[key[t]][scan_idx[t]]]}
    /\ lock_owner' = NoThread
    /\ pc' = [pc EXCEPT ![t] = "idle"]
    /\ string' = [string EXCEPT ![t] = <<>>]
    /\ key' = [key EXCEPT ![t] = NoKey]
    /\ scan_idx' = [scan_idx EXCEPT ![t] = 0]
    /\ snap' = EmptyMap
    /\ UNCHANGED <<INTERN_SET, poisoned, heap, calls, overflow_checks>>
    /\ UNCHANGED hashvars

\* the iterator is exhausted without a match
ScanEnd(t) ==
    /\ pc[t] = "scan"
    /\ scan_idx[t] > Len(INTERN_SET[key[t]])
    /\ pc' = [pc EXCEPT ![t] = "alloc"]
    /\ UNCHANGED <<INTERN_SET, lock_owner, poisoned, heap, string, key,
                   scan_idx, returned, snap, calls, overflow_checks>>
    /\ UNCHANGED hashvars

\* let atom = Atom::new_internal(string, key);  -- the allocation succeeds;
\* the new Atom is the address of the new Record
new_internal(t) ==
    /\ pc[t] = "alloc"
    /\ heap' = Append(heap, alloc_new(string[t], key[t]))
    /\ pc' = [pc EXCEPT ![t] = "push"]
    /\ UNCHANGED <<INTERN_SET, lock_owner, poisoned, string, key, scan_idx, returned, snap, calls, overflow_checks>>
    /\ UNCHANGED hashvars

\* atoms.push(atom); atom  -- the guard is dropped on return
Push(t) ==
    /\ pc[t] = "push"
    /\ INTERN_SET' = [INTERN_SET EXCEPT ![key[t]] = Append(@, Len(heap))]
    /\ returned' = returned \cup {[s |-> string[t], atom |-> Len(heap)]}
    /\ lock_owner' = NoThread
    /\ pc' = [pc EXCEPT ![t] = "idle"]
    /\ string' = [string EXCEPT ![t] = <<>>]
    /\ key' = [key EXCEPT ![t] = NoKey]
    /\ scan_idx' = [scan_idx EXCEPT ![t] = 0]
    /\ snap' = EmptyMap
    /\ UNCHANGED <<poisoned, heap, calls, overflow_checks>>
    /\ UNCHANGED hashvars

Step(t) ==
    \/ Lock(t)
    \/ Entry(t)
    \/ ScanNext(t)
    \/ ScanHit(t)
    \/ ScanEnd(t)
    \/ new_internal(t)
    \/ Push(t)

Next ==
    \/ \E t \in Threads, s \in Strings : Call(t, s)
    \/ \E t \in Threads : Lock(t)
    \/ \E t \in Threads : Entry(t)
    \/ \E t \in Threads : ScanNext(t)
    \/ \E t \in Threads : ScanHit(t)
    \/ \E t \in Threads : ScanEnd(t)
    \/ \E t \in Threads : new_internal(t)
    \/ \E t \in Threads : Push(t)

Spec == Init /\ [][Next]_vars

(***************************************************************************)
(* Allocation failure.  AtomInner::alloc returns None, alloc_new passes it *)
(* on with `?`, and new_internal panics in expect().  The panic unwinds    *)
(* out of Atom::new with the guard alive: dropping it releases the mutex   *)
(* and sets its poison flag.  The bucket made by or_insert_with stays.     *)
(***************************************************************************)
new_internal_oom(t) ==
    /\ pc[t] = "alloc"
    /\ poisoned' = TRUE
    /\ lock_owner' = NoThread
    /\ pc' = [pc EXCEPT ![t] = "panicked"]
    /\ UNCHANGED <<INTERN_SET, heap, string, key, scan_idx, returned,
                   snap, calls, overflow_checks>>
    /\ UNCHANGED hashvars

\* INTERN_SET.lock() on a poisoned mutex is Err, and unwrap() panics
LockPoisoned(t) ==
    /\ pc[t] = "lock"
    /\ lock_owner = NoThread
    /\ poisoned
    /\ pc' = [pc EXCEPT ![t] = "panicked"]
    /\ UNCHANGED <<INTERN_SET, lock_owner, poisoned, heap, string, key,
                   scan_idx, returned, snap, calls, overflow_checks>>
    /\ UNCHANGED hashvars

NextOom ==
    \/ Next
    \/ \E t \in Threads : new_internal_oom(t)
    \/ \E t \in Threads : LockPoisoned(t)

SpecOom == Init /\ [][NextOom]_vars

(***************************************************************************)
(* Fair scheduling: a thread inside Atom::new keeps running, and a thread  *)
(* waiting for the mutex gets it if it is free again and again.  Nothing   *)
(* obliges a thread to start a call.                                       *)
(***************************************************************************)
Fairness ==
    \A t \in Threads : WF_vars(Step(t)) /\ SF_vars(Lock(t))

LiveSpec == Spec /\ Fairness

(***************************************************************************)
(* Direct calls of the hash functions.                                     *)
(***************************************************************************)
Bytes == {1, 2}
Buffers == UNION {[1..n -> Bytes] : n \in 0..MaxBufLen}
Sizes == {0, 1, 2, UsizeRange \div 2, USIZE_MAX - 1, USIZE_MAX}

InitHash ==
    /\ InitRegistry
    /\ overflow_checks \in BOOLEAN
    /\ in_bytes \in Buffers
    /\ in_head_size \in Sizes
    /\ in_tail_size \in Sizes
    /\ hash_called = "none"
    /\ hash_out = Panicked

CallHeadTail ==
    /\ hash_called = "none"
    /\ hash_called' = "hash_bytes_head_tail"
    /\ hash_out' = hash_bytes_head_tail(in_bytes, in_head_size, in_tail_size,
                                        overflow_checks)
    /\ UNCHANGED <<in_bytes, in_head_size, in_tail_size, overflow_checks>>
    /\ UNCHANGED regvars

CallEnds ==
    /\ hash_called = "none"
    /\ hash_called' = "hash_bytes_ends"
    /\ hash_out' = hash_bytes_ends(in_bytes, in_head_size, overflow_checks)
    /\ UNCHANGED <<in_bytes, in_head_size, in_tail_size, overflow_checks>>
    /\ UNCHANGED regvars

NextHash ==
    \/ CallHeadTail
    \/ CallEnds

SpecHash == InitHash /\ [][NextHash]_vars

(***************************************************************************)
(* str operations of the standard library used through as_str().           *)
(***************************************************************************)
Min(a, b) == IF a <= b THEN a ELSE b

\* u8 as i8
as_i8(b) == IF b >= 128 THEN b - 256 ELSE b

\* str::is_char_boundary
is_char_boundary(s, index) ==
    IF index = 0 THEN TRUE
    ELSE IF index >= Len(s) THEN index = Len(s)
    ELSE as_i8(s[index + 1]) >= -64

\* str[start..end]
str_index(s, start, end) ==
    IF start <= end /\ is_char_boundary(s, start) /\ is_char_boundary(s, end)
    THEN Ok(SubSeq(s, start + 1, end))
    ELSE Panicked

\* Index for Atom slicing the bytes, with no character boundary check
Atom_index_bytes(atom, start, end) ==
    IF start <= end /\ end <= Len(as_str(atom))
    THEN Ok(SubSeq(as_str(atom), start + 1, end))
    ELSE Panicked

\* impl Index<I> for Atom: &self.as_str()[index]
Atom_index(atom, start, end) == str_index(as_str(atom), start, end)

\* Ord for str: the bytes compared up to the shorter length, then the lengths
str_cmp(x, y) ==
    LET n == Min(Len(x), Len(y))
        diff == {i \in 1..n : x[i] # y[i]}
    IN IF diff # {}
       THEN LET i == CHOOSE d \in diff : \A e \in diff : d <= e
            IN IF x[i] < y[i] THEN "Less" ELSE "Greater"
       ELSE IF Len(x) < Len(y) THEN "Less"
       ELSE IF Len(x) = Len(y) THEN "Equal"
       ELSE "Greater"

CmpOps == {"partial_cmp", "lt", "le", "gt", "ge"}

\* the comparison methods of str
str_op(op, x, y) ==
    CASE op = "partial_cmp" -> str_cmp(x, y)
      [] op = "cmp" -> str_cmp(x, y)
      [] op = "lt" -> str_cmp(x, y) = "Less"
      [] op = "le" -> str_cmp(x, y) # "Greater"
      [] op = "gt" -> str_cmp(x, y) = "Greater"
      [] op = "ge" -> str_cmp(x, y) # "Less"
      [] op = "eq" -> x = y

(***************************************************************************)
(* The comparison impls of Atom, one operator per impl block.              *)
(***************************************************************************)
\* impl PartialOrd<Atom> for Atom, impl Ord for Atom
Atom_cmp_Atom(op, a, b) == str_op(op, as_str(a), as_str(b))

\* impl PartialOrd<str> for Atom
Atom_cmp_str(op, a, other) == str_op(op, as_str(a), other)

\* impl PartialOrd<Atom> for str
str_cmp_Atom(op, self, a) == str_op(op, self, as_str(a))

\* impl PartialOrd<&str> for Atom
Atom_cmp_ref_str(op, a, other) == str_op(op, as_str(a), other)

\* impl PartialOrd<Atom> for &str
ref_str_cmp_Atom(op, self, a) == str_op(op, self, as_str(a))

\* impl PartialOrd<String> for Atom: each method calls the same method of
\* PartialOrd<str> for Atom
Atom_cmp_String(op, a, other) == Atom_cmp_str(op, a, other)

\* impl PartialOrd<Atom> for String: ge is self.as_str().eq(other.as_str())
String_cmp_Atom(op, self, a) ==
    IF op = "ge" THEN str_op("eq", self, as_str(a))
    ELSE str_op(op, self, as_str(a))

(***************************************************************************)
(* Helpers of the properties.                                              *)
(***************************************************************************)
\* the Atoms held by a registry map
AtomsIn(map) == UNION {{map[k][i] : i \in 1..Len(map[k])} : k \in DOMAIN map}

IsPrefix(x, y) == Len(x) <= Len(y) /\ SubSeq(y, 1, Len(x)) = x

InCritical(t) == pc[t] \in {"entry", "scan", "alloc", "push"}

\* x sorts strictly before y in byte-lexicographic order
LexLess(x, y) ==
    \E k \in 0..Min(Len(x), Len(y)) :
        /\ \A i \in 1..k : x[i] = y[i]
        /\ \/ k = Len(x) /\ k < Len(y)
           \/ k < Len(x) /\ k < Len(y) /\ x[k + 1] < y[k + 1]

LexOrdering(x, y) ==
    IF LexLess(x, y) THEN "Less" ELSE IF LexLess(y, x) THEN "Greater" ELSE "Equal"

\* the result the byte-lexicographic order gives for a comparison method
LexExpected(op, x, y) ==
    CASE op = "partial_cmp" -> LexOrdering(x, y)
      [] op = "cmp" -> LexOrdering(x, y)
      [] op = "lt" -> LexLess(x, y)
      [] op = "le" -> ~LexLess(y, x)
      [] op = "gt" -> LexLess(y, x)
      [] op = "ge" -> ~LexLess(x, y)

\* a byte that starts a UTF-8 character
IsLeadByte(b) == b < 128 \/ b \in 192..247

\* offset k of s lies between two characters
OnCharBoundary(s, k) ==
    k = 0 \/ k = Len(s) \/ (k < Len(s) /\ IsLeadByte(s[k + 1]))

\* the offsets tried on a string: the first few and those around its end
MaxIndex == 4
IndexSamples(s) ==
    {k \in 0..(Len(s) + 1) : k <= MaxIndex \/ k >= Len(s)}

\* the digest of a string, windows of ENDS_SIZE bytes at both ends
WindowDigest(s) ==
    IF Len(s) <= 2 * ENDS_SIZE THEN hash_bytes(s)
    ELSE hash_bytes(SubSeq(s, 1, ENDS_SIZE)
                    \o SubSeq(s, Len(s) - ENDS_SIZE + 1, Len(s)))

(***************************************************************************)
(* C1.  For any two Atoms returned by Atom::new, ptr_eq (and ==) holds     *)
(* exactly when the strings they were returned for are byte-for-byte       *)
(* equal, also for different strings that share an AtomKey.                *)
(***************************************************************************)
C1_DedupInvariant ==
    \A p, q \in returned :
        /\ ptr_eq(p.atom, q.atom) <=> (p.s = q.s)
        /\ Atom_eq(p.atom, q.atom) <=> (p.s = q.s)

\* two different strings with one key got two Atoms, and two calls with one
\* string got the same Atom
C1_Witness ==
    /\ \E p, q \in returned :
          /\ p.s # q.s
          /\ heap[p.atom].key = heap[q.atom].key
          /\ ~ptr_eq(p.atom, q.atom)
    /\ \A t \in Threads : pc[t] = "idle"
    /\ calls > Cardinality(returned)

(***************************************************************************)
(* C2.  Under every interleaving of concurrent Atom::new calls no two      *)
(* Records hold the same content, calls with the same content return the   *)
(* same Atom, and whenever the mutex is free the number of Records         *)
(* allocated is the number of distinct strings interned.                   *)
(***************************************************************************)
C2_OneRecordPerContent ==
    /\ \A a, b \in Atoms : as_str(a) = as_str(b) => a = b
    /\ \A p, q \in returned : p.s = q.s => p.atom = q.atom
    /\ lock_owner = NoThread =>
          Len(heap) = Cardinality({p.s : p \in returned})

\* a thread has allocated the Record of a string while another thread,
\* its key already computed, waits for the mutex with the same string
C2_Witness ==
    \E t, u \in Threads :
        /\ t # u
        /\ pc[t] = "push"
        /\ pc[u] = "lock"
        /\ string[t] = string[u]

(***************************************************************************)
(* C3.  Content round-trip: in every state, as_str() of an Atom returned   *)
(* for s is s and len() is the byte length of s, whatever was interned     *)
(* since.                                                                  *)
(***************************************************************************)
C3_ContentRoundTrip ==
    \A p \in returned :
        /\ as_str(p.atom) = p.s
        /\ Atom_len(p.atom) = Len(p.s)

\* the empty string, a string longer than the window and a third string
\* have been interned
C3_Witness ==
    /\ \E p \in returned : p.s = <<>>
    /\ \E p \in returned : Len(p.s) > 2 * ENDS_SIZE
    /\ \E p \in returned : Len(p.s) \in 1..(2 * ENDS_SIZE)

(***************************************************************************)
(* C4.  Ordering consistency: every comparison method of every impl, Atom  *)
(* with Atom and Atom with str, &str or String in either operand order,    *)
(* returns what the byte-lexicographic order of the contents gives.        *)
(***************************************************************************)
C4_OrderingConsistency ==
    \A p \in returned :
        /\ \A q \in returned : \A op \in CmpOps \cup {"cmp"} :
              Atom_cmp_Atom(op, p.atom, q.atom) = LexExpected(op, p.s, q.s)
        /\ \A s \in PlainStrings : \A op \in CmpOps :
              /\ Atom_cmp_str(op, p.atom, s) = LexExpected(op, p.s, s)
              /\ str_cmp_Atom(op, s, p.atom) = LexExpected(op, s, p.s)
              /\ Atom_cmp_ref_str(op, p.atom, s) = LexExpected(op, p.s, s)
              /\ ref_str_cmp_Atom(op, s, p.atom) = LexExpected(op, s, p.s)
              /\ Atom_cmp_String(op, p.atom, s) = LexExpected(op, p.s, s)
              /\ String_cmp_Atom(op, s, p.atom) = LexExpected(op, s, p.s)

(***************************************************************************)
(* C5.  A failed Atom::new leaves no trace: once a call has panicked the   *)
(* mutex is not poisoned and the registry is what it was when that call    *)
(* took the mutex.                                                         *)
(***************************************************************************)
C5_FailedInternLeavesNoTrace ==
    (\E t \in Threads : pc[t] = "panicked") =>
        /\ ~poisoned
        /\ INTERN_SET = snap

(***************************************************************************)
(* C6.  Windowed-hash fallback: whenever the buffer is no longer than      *)
(* head_size + tail_size, the sum taken as a mathematical integer,         *)
(* hash_bytes_head_tail returns hash_bytes of the buffer; likewise         *)
(* hash_bytes_ends for a buffer no longer than 2 * end_size.               *)
(***************************************************************************)
C6_WindowedHashFallback ==
    /\ (hash_called = "hash_bytes_head_tail"
          /\ Len(in_bytes) <= in_head_size + in_tail_size)
       => hash_out = Ok(hash_bytes(in_bytes))
    /\ (hash_called = "hash_bytes_ends"
          /\ Len(in_bytes) <= 2 * in_head_size)
       => hash_out = Ok(hash_bytes(in_bytes))

(***************************************************************************)
(* C7.  Indexing an Atom by a byte range gives the bytes of that range of  *)
(* the interned string when the range is in bounds and on character        *)
(* boundaries, and panics otherwise.                                       *)
(***************************************************************************)
C7_IndexFollowsSlicing ==
    \A p \in returned : \A i, j \in IndexSamples(p.s) :
        Atom_index(p.atom, i, j) =
            IF i <= j /\ j <= Len(p.s)
               /\ OnCharBoundary(p.s, i) /\ OnCharBoundary(p.s, j)
            THEN Ok([n \in 1..(j - i) |-> p.s[i + n]])
            ELSE Panicked

\* "0123456789"[1..4] is "123", and a string with a two-byte character was
\* interned, whose range 0..1 panics
C7_Witness ==
    /\ \E p \in returned :
          p.s = StrDigits /\ Atom_index(p.atom, 1, 4) = Ok(<<49, 50, 51>>)
    /\ \E p \in returned :
          p.s = StrEAcute /\ Atom_index(p.atom, 0, 1) = Panicked

(***************************************************************************)
(* C8 as stated.  Hashing an Atom feeds the Hasher the digest of its key   *)
(* and nothing else.                                                       *)
(***************************************************************************)
C8_HashFeedsDigestOnly ==
    \A p \in returned : Atom_Hash_hash(p.atom) = <<WindowDigest(p.s)>>

(***************************************************************************)
(* C8 amended.  Hashing an Atom feeds the Hasher the whole key of its      *)
(* Record, the digest and then the length, and Atoms returned for equal    *)
(* strings feed it the same input.                                         *)
(***************************************************************************)
C8_HashFeedsKey ==
    \A p \in returned :
        /\ Atom_Hash_hash(p.atom) = <<WindowDigest(p.s), Len(p.s)>>
        /\ Atom_Hash_hash(p.atom) = <<Atom_hash(p.atom), Atom_len(p.atom)>>
        /\ \A q \in returned :
              (p.s = q.s \/ Atom_eq(p.atom, q.atom))
                  => Atom_Hash_hash(p.atom) = Atom_Hash_hash(q.atom)

\* an Atom of a string longer than the window exists, and some string was
\* interned by two calls
C8_Witness ==
    /\ \E p \in returned : Len(p.s) > 2 * ENDS_SIZE
    /\ \A t \in Threads : pc[t] # "push"
    /\ calls - Cardinality({t \in Threads : pc[t] # "idle"}) > Len(heap)

\* what one step of thread t that ends a call does to the registry,
\* against the registry as it was when the call took the mutex
ReturnFrame(t) ==
    /\ (pc[t] = "scan" /\ pc'[t] = "idle") =>
          /\ INTERN_SET' = snap
          /\ 1..Len(heap') = AtomsIn(snap)
          /\ key[t] \in DOMAIN snap
          /\ \E i \in 1..Len(snap[key[t]]) :
                /\ [s |-> string[t], atom |-> snap[key[t]][i]] \in returned'
                /\ as_str(snap[key[t]][i]) = string[t]
    /\ (pc[t] = "push" /\ pc'[t] = "idle") =>
          LET old == IF key[t] \in DOMAIN snap THEN snap[key[t]] ELSE <<>> IN
          /\ \A i \in 1..Len(old) : as_str(old[i]) # string[t]
          /\ DOMAIN INTERN_SET' = DOMAIN snap \cup {key[t]}
          /\ \A k \in DOMAIN snap \ {key[t]} : INTERN_SET'[k] = snap[k]
          /\ \E a \in Atoms \ AtomsIn(snap) :
                /\ INTERN_SET'[key[t]] = Append(old, a)
                /\ [s |-> string[t], atom |-> a] \in returned'
                /\ 1..Len(heap') = AtomsIn(snap) \cup {a}

(***************************************************************************)
(* C9.  Frame of Atom::new.  A call that returns from the scan returns an  *)
(* Atom of the bucket equal to its string and leaves the registry and the  *)
(* heap as they were when it took the mutex.  A call that returns after    *)
(* the push found no such Atom, allocated one Record, appended its Atom at *)
(* the end of the bucket of its key and changed no other bucket.  No step  *)
(* removes or reorders a bucket or an entry, and every Atom returned stays *)
(* in the registry.                                                        *)
(***************************************************************************)
C9_InternFrame ==
    [][/\ \A t \in Threads : ReturnFrame(t)
       /\ \A k \in DOMAIN INTERN_SET :
             k \in DOMAIN INTERN_SET' /\ IsPrefix(INTERN_SET[k], INTERN_SET'[k])
       /\ \A p \in returned' : p.atom \in AtomsIn(INTERN_SET')
       /\ returned \subseteq returned']_vars

\* three calls are over, one of them a hit, and one bucket holds two Atoms
C9_Witness ==
    /\ calls = 3
    /\ \A t \in Threads : pc[t] = "idle"
    /\ Len(heap) = 2
    /\ \E k \in DOMAIN INTERN_SET : Len(INTERN_SET[k]) = 2

=============================================================================
